---- MODULE Spec2Model ----
(***************************************************************************)
(* Chisel REPL environment (chisel/src/env.rs): the session of Solidity    *)
(* snippets, the rendering of the REPL contract, and the session cache    *)
(* kept as chisel-<id>.json files under ~/.foundry/cache/chisel/.          *)
(*                                                                         *)
(* Text is modelled by a closed catalogue of snippet texts; the solang     *)
(* parser is the table Parse over that catalogue.  A file name is the      *)
(* triple (leading "chisel-", stem, trailing ".json"), which is what the   *)
(* two trims of next_cached_session take apart.  A JSON value keeps its    *)
(* type (string, object), which is what serde's derived Deserialize reads. *)
(***************************************************************************)
EXTENDS Integers, Sequences, FiniteSets, TLC

VARIABLES env, pc, wret, dirExists, dir, clock, ret

vars == <<env, pc, wret, dirExists, dir, clock, ret>>

(***************************************************************************)
(* Bounds of the model.                                                    *)
(***************************************************************************)
MaxSession == 1
MaxRender == 3
MaxTime == 1
MaxId == 1
MaxStored == 2

\* The process whose calls are followed one by one, and the two processes
\* that persist at the same time.
Envs == { 1 }
Procs == { 1, 2 }

(***************************************************************************)
(* Option<usize>                                                           *)
(***************************************************************************)
None == [some |-> FALSE, v |-> 0]
Some(n) == [some |-> TRUE, v |-> n]

(***************************************************************************)
(* Snippet texts and the parser.                                           *)
(***************************************************************************)
Part(k) == [kind |-> k, path |-> ""]
ImportPart(p) == [kind |-> "ImportDirective", path |-> p]

ParseErr == [ok |-> FALSE, parts |-> <<>>]
ParseOk(ps) == [ok |-> TRUE, parts |-> ps]

\* solang_parser::parse on the texts of the catalogue; any other text
\* (among them the JSON-escaped forms) is not Solidity.
Parse(text) ==
  CASE text = "pragma solidity 0.8.17;" -> ParseOk(<<Part("PragmaDirective")>>)
    [] text = "uint256 x;" -> ParseOk(<<Part("VariableDefinition")>>)
    [] text = "function f() {}" -> ParseOk(<<Part("FunctionDefinition")>>)
    [] text = "import 'a.sol';" -> ParseOk(<<ImportPart("a.sol")>>)
    [] text = "import \"b.sol\";" -> ParseOk(<<ImportPart("b.sol")>>)
    [] text = "import 'a.sol'; pragma solidity ^0.8.0;" ->
         ParseOk(<<ImportPart("a.sol"), Part("PragmaDirective")>>)
    [] text = "function g() {} import 'a.sol'; import 'a.sol';" ->
         ParseOk(<<Part("FunctionDefinition"), ImportPart("a.sol"), ImportPart("a.sol")>>)
    [] text = "uint256 y; pragma solidity ^0.8.0;" ->
         ParseOk(<<Part("VariableDefinition"), Part("PragmaDirective")>>)
    [] text = "contract C {} function h() {}" ->
         ParseOk(<<Part("ContractDefinition"), Part("FunctionDefinition")>>)
    [] text = "; uint256 z;" ->
         ParseOk(<<Part("StraySemicolon"), Part("VariableDefinition")>>)
    [] text = "contract E {} import 'a.sol'; pragma solidity ^0.8.0;" ->
         ParseOk(<<Part("ContractDefinition"), ImportPart("a.sol"), Part("PragmaDirective")>>)
    [] text = "enum E { A }" -> ParseOk(<<Part("EnumDefinition")>>)
    [] text = "struct S { uint256 a; }" -> ParseOk(<<Part("StructDefinition")>>)
    [] text = "event Ev();" -> ParseOk(<<Part("EventDefinition")>>)
    [] text = "error Er();" -> ParseOk(<<Part("ErrorDefinition")>>)
    [] text = "type T is uint256;" -> ParseOk(<<Part("TypeDefinition")>>)
    [] text = "using L for uint256;" -> ParseOk(<<Part("Using")>>)
    [] text = "contract D {}" -> ParseOk(<<Part("ContractDefinition")>>)
    [] text = ";" -> ParseOk(<<Part("StraySemicolon")>>)
    [] text = "" -> ParseOk(<<>>)
    [] OTHER -> ParseErr

\* Every text of the catalogue that parses.
Texts ==
  { "pragma solidity 0.8.17;", "uint256 x;", "function f() {}", "import 'a.sol';",
    "import \"b.sol\";", "import 'a.sol'; pragma solidity ^0.8.0;",
    "function g() {} import 'a.sol'; import 'a.sol';",
    "uint256 y; pragma solidity ^0.8.0;", "contract C {} function h() {}",
    "; uint256 z;", "contract E {} import 'a.sol'; pragma solidity ^0.8.0;",
    "enum E { A }", "struct S { uint256 a; }", "event Ev();",
    "error Er();", "type T is uint256;", "using L for uint256;", "contract D {}",
    ";", "" }

\* A text the parser rejects.
BadText == "uint256 x"

\* The texts submitted to the sessions whose persistence is explored.
SubmitTexts == { "uint256 x;", BadText }

\* ChiselEnv::default(): the svm global version, or 0.8.17.
DefaultVersion == "0.8.17"

Versions == { "0.8.17", "0.8.19" }

\* SolSnippet { source_unit, raw }
SolSnippet(text) == [source_unit |-> Parse(text).parts, raw |-> text]

(***************************************************************************)
(* contract_source: the rendered REPL contract, kept as the four holes of  *)
(* the template (pragma line, import block, contract body, fallback body). *)
(***************************************************************************)
HasKind(snippet, k) ==
  \E i \in 1..Len(snippet.source_unit) : snippet.source_unit[i].kind = k

\* The first snippet whose first part is a pragma directive, 0 for none.
pragma_def_first_part(session) ==
  LET S == { i \in 1..Len(session) :
               /\ Len(session[i].source_unit) > 0
               /\ session[i].source_unit[1].kind = "PragmaDirective" }
  IN  IF S = {} THEN 0 ELSE CHOOSE i \in S : \A j \in S : i <= j

\* .find(|i| i.source_unit.0.0.iter().any(PragmaDirective)): the index of the
\* first snippet holding a pragma directive at any position, 0 for none.
pragma_def(session) ==
  LET S == { i \in 1..Len(session) : HasKind(session[i], "PragmaDirective") }
  IN  IF S = {} THEN 0 ELSE CHOOSE i \in S : \A j \in S : i <= j

RECURSIVE ImportPaths(_)
ImportPaths(parts) ==
  IF parts = <<>> THEN <<>>
  ELSE (IF Head(parts).kind = "ImportDirective" THEN <<Head(parts).path>> ELSE <<>>)
       \o ImportPaths(Tail(parts))

\* The import paths with each path listed once, at its first occurrence.
RECURSIVE Dedup(_, _)
Dedup(paths, seen) ==
  IF paths = <<>> THEN <<>>
  ELSE IF Head(paths) \in seen THEN Dedup(Tail(paths), seen)
  ELSE <<Head(paths)>> \o Dedup(Tail(paths), seen \cup { Head(paths) })

RECURSIVE ImportsOf(_)
ImportsOf(session) ==
  IF session = <<>> THEN <<>>
  ELSE ImportPaths(Head(session).source_unit) \o ImportsOf(Tail(session))

imports_dedup(session) == Dedup(ImportsOf(session), {})

\* .flat_map(|i| ... .filter(ImportDirective).map(string_literal.string)):
\* the path of every import directive, snippet by snippet, part by part.
RECURSIVE imports(_)
imports(session) ==
  IF session = <<>> THEN <<>>
  ELSE ImportPaths(Head(session).source_unit) \o imports(Tail(session))

\* The top-level kinds with the contract definition among them.
TopLevelKindsAndContract ==
  { "EnumDefinition", "StructDefinition", "EventDefinition", "ErrorDefinition",
    "FunctionDefinition", "TypeDefinition", "Using", "ContractDefinition" }

TopLevelKinds ==
  { "EnumDefinition", "StructDefinition", "EventDefinition", "ErrorDefinition",
    "FunctionDefinition", "TypeDefinition", "Using" }

IsTopLevel(unit) ==
  /\ Len(unit.source_unit) > 0
  /\ unit.source_unit[1].kind \in TopLevelKinds

\* A snippet with a variable definition at any position of its tree.
IsFallbackAnyPart(unit) == HasKind(unit, "VariableDefinition")

IsFallback(unit) ==
  /\ Len(unit.source_unit) > 0
  /\ unit.source_unit[1].kind = "VariableDefinition"

RECURSIVE Raws(_)
Raws(units) ==
  IF units = <<>> THEN <<>> ELSE <<Head(units).raw>> \o Raws(Tail(units))

RECURSIVE Reverse(_)
Reverse(seq) ==
  IF seq = <<>> THEN <<>> ELSE Reverse(Tail(seq)) \o <<Head(seq)>>

\* The top-level snippets, the latest first.
top_level_units_reversed(session) == Reverse(Raws(SelectSeq(session, IsTopLevel)))

top_level_units(session) == Raws(SelectSeq(session, IsTopLevel))

fallback_snippets(session) == Raws(SelectSeq(session, IsFallback))

\* The first hole: the snippet's text, or "pragma solidity {};" with the version.
PragmaLine(self) ==
  LET p == pragma_def(self.session)
  IN  IF p # 0 THEN [fmt |-> "{}", arg |-> self.session[p].raw]
      ELSE [fmt |-> "pragma solidity {};", arg |-> self.solc_version]

contract_source_id(self) ==
  [pragma |-> IF pragma_def(self.session) # 0 \/ ~self.id.some THEN PragmaLine(self)
              ELSE [fmt |-> "pragma solidity {}; // session", arg |-> self.solc_version],
   imports |-> imports(self.session),
   top_level_units |-> top_level_units(self.session),
   fallback_snippets |-> fallback_snippets(self.session)]

contract_source(self) ==
  [pragma |-> PragmaLine(self),
   imports |-> imports(self.session),
   top_level_units |-> top_level_units(self.session),
   fallback_snippets |-> fallback_snippets(self.session)]

(***************************************************************************)
(* The cache directory: file names, entries and their contents.            *)
(***************************************************************************)
\* format!("{}chisel-{}.json", cache_dir, id)
SessionName(id) == [prefix |-> TRUE, num |-> TRUE, n |-> id, txt |-> "", suffix |-> TRUE]

OtherName(t) == [prefix |-> FALSE, num |-> FALSE, n |-> 0, txt |-> t, suffix |-> FALSE]

NoName == OtherName("")

\* An entry that is no snapshot: a file or a directory another program made.
Notes == OtherName("notes")

Names == { SessionName(i) : i \in 0..MaxId } \cup { Notes }

\* A file that is not JSON.
Garbage == [valid |-> FALSE, solc_version |-> "", session |-> <<>>, id |-> None]

Entry(isDir, time, contents) ==
  [is_dir |-> isDir, modified |-> time, contents |-> contents]

EmptyDir == [n \in {} |-> Entry(FALSE, 0, Garbage)]

\* std::fs::read_dir yields the entries in an order the file system chooses.
RECURSIVE Orders(_)
Orders(S) ==
  IF S = {} THEN { <<>> }
  ELSE UNION { { <<x>> \o o : o \in Orders(S \ {x}) } : x \in S }

(***************************************************************************)
(* Serialize / Deserialize                                                 *)
(***************************************************************************)
\* impl Serialize for SolSnippet: serialize_str of the formatted text, so the
\* snippet becomes one JSON string (not an object) with the raw text in it twice.
SerializeSnippet(snippet) ==
  [type |-> "string", source_unit |-> snippet.raw, raw |-> snippet.raw]

RECURSIVE SerializeSession(_)
SerializeSession(session) ==
  IF session = <<>> THEN <<>>
  ELSE <<SerializeSnippet(Head(session))>> \o SerializeSession(Tail(session))

\* The snapshot of an Environment taken before its id is assigned.
to_string_pretty_before_id(self) ==
  [valid |-> TRUE, solc_version |-> self.solc_version,
   session |-> SerializeSession(self.session), id |-> None]

\* serde_json::to_string_pretty(self): project and rl are skipped.
to_string_pretty(self) ==
  [valid |-> TRUE, solc_version |-> self.solc_version,
   session |-> SerializeSession(self.session), id |-> self.id]

\* The text of a JSON string between its quotes: quotes inside are escaped.
JsonEscape(text) ==
  IF text = "import \"b.sol\";" THEN "import \\\"b.sol\\\";" ELSE text

\* RawValue of the field, trim_matches('"'), then solang_parser::parse.
deserialize_source_unit(field) == Parse(JsonEscape(field))

\* RawValue of the field, trim_matches('"').
deserialize_raw(field) == JsonEscape(field)

\* #[derive(Deserialize)] struct SolSnippet: serde_json reads a struct from a
\* map (or a sequence); any other JSON value is an "invalid type" error.
DeserializeSnippet(value) ==
  IF value.type # "object" THEN [ok |-> FALSE, snippet |-> SolSnippet("")]
  ELSE LET su == deserialize_source_unit(value.source_unit)
       IN  IF ~su.ok THEN [ok |-> FALSE, snippet |-> SolSnippet("")]
           ELSE [ok |-> TRUE,
                 snippet |-> [source_unit |-> su.parts, raw |-> deserialize_raw(value.raw)]]

\* A session read record by record, the records that fail left out.
RECURSIVE DeserializeSessionLenient(_)
DeserializeSessionLenient(values) ==
  IF values = <<>> THEN [ok |-> TRUE, session |-> <<>>]
  ELSE LET h == DeserializeSnippet(Head(values))
           t == DeserializeSessionLenient(Tail(values))
       IN  [ok |-> TRUE,
            session |-> (IF h.ok THEN <<h.snippet>> ELSE <<>>) \o t.session]

\* Vec<SolSnippet>: the first record that fails fails the whole sequence.
RECURSIVE DeserializeSession(_)
DeserializeSession(values) ==
  IF values = <<>> THEN [ok |-> TRUE, session |-> <<>>]
  ELSE LET h == DeserializeSnippet(Head(values))
           t == DeserializeSession(Tail(values))
       IN  IF h.ok /\ t.ok THEN [ok |-> TRUE, session |-> <<h.snippet>> \o t.session]
           ELSE [ok |-> FALSE, session |-> <<>>]

\* ChiselEnv
ChiselEnv(version, session, id) ==
  [solc_version |-> version, session |-> session, id |-> id]

NoEnv == ChiselEnv("", <<>>, None)

\* serde_json::from_str::<ChiselEnv>(contents)
from_str(contents) ==
  IF ~contents.valid THEN [ok |-> FALSE, env |-> NoEnv]
  ELSE LET s == DeserializeSession(contents.session)
       IN  IF ~s.ok THEN [ok |-> FALSE, env |-> NoEnv]
           ELSE [ok |-> TRUE, env |-> ChiselEnv(contents.solc_version, s.session, contents.id)]

(***************************************************************************)
(* Return values.                                                          *)
(***************************************************************************)
Res(op, ok, err, n, path, list) ==
  [op |-> op, ok |-> ok, err |-> err, n |-> n, path |-> path, list |-> list]

Ok(op, n, path, list) == Res(op, TRUE, "", n, path, list)
Err(op, err) == Res(op, FALSE, err, 0, NoName, <<>>)

NoRes == Res("none", TRUE, "", 0, NoName, <<>>)

\* A return value with the process that made the call and, for
\* contract_source, the text returned.
By(e, res, text) ==
  [who |-> e, op |-> res.op, ok |-> res.ok, err |-> res.err, n |-> res.n,
   path |-> res.path, list |-> res.list, text |-> text]

(***************************************************************************)
(* The session cache.                                                      *)
(***************************************************************************)
\* for entry in entries { if entry.modified >= latest.modified { latest = entry } }
RECURSIVE LatestGe(_, _, _)
LatestGe(d, latest, entries) ==
  IF entries = <<>> THEN latest
  ELSE LatestGe(d,
                IF d[Head(entries)].modified >= d[latest].modified
                  THEN Head(entries) ELSE latest,
                Tail(entries))

\* for entry in entries { if entry.modified > latest.modified { latest = entry } }
RECURSIVE LatestGt(_, _, _)
LatestGt(d, latest, entries) ==
  IF entries = <<>> THEN latest
  ELSE LatestGt(d,
                IF d[Head(entries)].modified > d[latest].modified
                  THEN Head(entries) ELSE latest,
                Tail(entries))

\* next_cached_session on the entries of d as read_dir yields them:
\* trim_end_matches(".json"), trim_start_matches("chisel-"), parse::<usize>.
next_cached_session(d, order) ==
  IF order = <<>> THEN Ok("next_cached_session", 0, SessionName(0), <<>>)
  ELSE LET latest == LatestGe(d, Head(order), Tail(order))
       IN  IF ~latest.num THEN Err("next_cached_session", "parse_int")
           ELSE Ok("next_cached_session", latest.n + 1, SessionName(latest.n + 1), <<>>)

\* latest_chached_session on the entries of d as read_dir yields them.
latest_chached_session(d, order) ==
  IF order = <<>> THEN Err("latest_chached_session", "No entries found!")
  ELSE Ok("latest_chached_session", 0, LatestGt(d, Head(order), Tail(order)), <<>>)

RECURSIVE Sessions(_, _)
Sessions(d, order) ==
  IF order = <<>> THEN <<>>
  ELSE <<[modified |-> d[Head(order)].modified, file_name |-> Head(order)]>>
       \o Sessions(d, Tail(order))

\* list_sessions: read_dir fails on a missing directory; else the entries of
\* d as read_dir yields them.
list_sessions(exists, d, fail, order) ==
  IF fail = "read_dir" \/ ~exists THEN Err("list_sessions", "io")
  ELSE Ok("list_sessions", 0, NoName, Sessions(d, order))

\* The entries order[1..k] removed from d.
Removed(d, order, k) ==
  [n \in DOMAIN d \ { order[i] : i \in 1..k } |-> d[n]]

\* clear_cache that leaves the directories in place.
clear_cache_files_only(d, order, k) ==
  [n \in DOMAIN d \ { order[i] : i \in { j \in 1..k : ~d[order[j]].is_dir } } |-> d[n]]

\* clear_cache that passes over the entry it cannot remove and goes on.
clear_cache_skip_failed(d, order, k) ==
  [n \in IF k < Len(order) THEN { order[k + 1] } ELSE {} |-> d[n]]

\* clear_cache: remove_dir_all or remove_file on each entry in turn; the
\* first k succeed.
clear_cache(d, order, k) == Removed(d, order, k)

\* std::fs::write with create_new: an existing file is kept.
fs_write_create_new(d, name, time, contents) ==
  [n \in DOMAIN d \cup {name} |->
     IF n = name /\ n \notin DOMAIN d THEN Entry(FALSE, time, contents) ELSE d[n]]

\* std::fs::write(path, contents): creates the file or replaces its contents.
fs_write(d, name, time, contents) ==
  [n \in DOMAIN d \cup {name} |->
     IF n = name THEN Entry(FALSE, time, contents) ELSE d[n]]

\* std::fs::read_to_string(path) succeeds on an existing regular file.
Readable(exists, d, name) ==
  exists /\ name \in DOMAIN d /\ ~d[name].is_dir

\* write allocating an id on every call.
NeedsIdAlways(self) == TRUE

\* write: if let Some(id) = self.id { return Ok(path) }
NeedsId(self) == ~self.id.some

(***************************************************************************)
(* write(&mut self) in its two halves.                                     *)
(***************************************************************************)
\* cache_dir, create_dir_all, the early return and next_cached_session:
\* what write has returned, if it has, and the id it has stored in self.id.
write_head(self, d, fail, order) ==
  IF fail = "create_dir_all"
    THEN [returned |-> TRUE, created |-> FALSE, id |-> self.id, res |-> Err("write", "io")]
  ELSE IF ~NeedsId(self)
    THEN [returned |-> TRUE, created |-> TRUE, id |-> self.id,
          res |-> Ok("write", self.id.v, SessionName(self.id.v), <<>>)]
  ELSE IF fail = "read_dir"
    THEN [returned |-> TRUE, created |-> TRUE, id |-> self.id, res |-> Err("write", "io")]
  ELSE LET r == next_cached_session(d, order)
       IN  IF ~r.ok
             THEN [returned |-> TRUE, created |-> TRUE, id |-> self.id,
                   res |-> Err("write", r.err)]
           ELSE [returned |-> FALSE, created |-> TRUE, id |-> Some(r.n), res |-> NoRes]

\* to_string_pretty(self), std::fs::write and the return: the directory
\* after it and what write returns.
write_tail(self, d, time, fail) ==
  LET name == SessionName(self.id.v)
  IN  IF fail = "write" \/ (name \in DOMAIN d /\ d[name].is_dir)
        THEN [dir |-> d, res |-> Err("write", "io")]
      ELSE [dir |-> fs_write(d, name, time, to_string_pretty(self)),
            res |-> Ok("write", self.id.v, name, <<>>)]

(***************************************************************************)
(* State.                                                                  *)
(*   env[e], pc[e]  the Environment of process e and where it stands:      *)
(*                  "unused" (not constructed), "idle", or "allocated"     *)
(*                  (inside write, between self.id = Some(id) and the      *)
(*                  std::fs::write)                                        *)
(*   wret[e]        how the last write on Environment e ended              *)
(*   dirExists, dir the cache directory and its entries                    *)
(*   clock          the file system's clock (modification times)           *)
(*   ret            what the last call returned, and to which process      *)
(***************************************************************************)
NoText == contract_source(NoEnv)

InitOf(P) ==
  /\ env = [e \in P |-> NoEnv]
  /\ pc = [e \in P |-> "unused"]
  /\ wret = [e \in P |-> "none"]
  /\ dirExists = FALSE
  /\ dir = EmptyDir
  /\ clock = 0
  /\ ret = By(0, NoRes, NoText)

Init == InitOf(Envs)

\* The orders read_dir may yield, where the call gets as far as reading.
OrdersIf(reads, d) == IF reads THEN Orders(DOMAIN d) ELSE { <<>> }

Outcome(res) == IF res.ok THEN "ok" ELSE res.err

\* ChiselEnv::default()
Default(e) ==
  /\ pc[e] = "unused"
  /\ env' = [env EXCEPT ![e] = ChiselEnv(DefaultVersion, <<>>, None)]
  /\ pc' = [pc EXCEPT ![e] = "idle"]
  /\ ret' = By(e, Ok("default", 0, NoName, <<>>), NoText)
  /\ UNCHANGED <<wret, dirExists, dir, clock>>

\* Fragment ingestion: parse the text; append the snippet, or reject it.
Submit(e) ==
  /\ pc[e] = "idle"
  /\ Len(env[e].session) < MaxSession
  /\ \E text \in SubmitTexts :
       IF Parse(text).ok
         THEN /\ env' = [env EXCEPT ![e].session = Append(@, SolSnippet(text))]
              /\ ret' = By(e, Ok("submit", 0, NoName, <<>>), NoText)
         ELSE /\ ret' = By(e, Err("submit", "parse"), NoText)
              /\ UNCHANGED env
  /\ UNCHANGED <<pc, wret, dirExists, dir, clock>>

\* contract_source(&self)
Render(e) ==
  /\ pc[e] = "idle"
  /\ ret' = By(e, Ok("contract_source", 0, NoName, <<>>), contract_source(env[e]))
  /\ UNCHANGED <<env, pc, wret, dirExists, dir, clock>>

\* create_cache_dir()
CreateCacheDir ==
  /\ \E fail \in {"none", "create_dir_all"} :
       IF fail # "none"
         THEN /\ ret' = By(0, Err("create_cache_dir", "io"), NoText)
              /\ UNCHANGED dirExists
       ELSE /\ ret' = By(0, Ok("create_cache_dir", 0, NoName, <<>>), NoText)
            /\ dirExists' = TRUE
  /\ UNCHANGED <<env, pc, wret, dir, clock>>

\* write(&mut self) by a process that runs it to its return; Faults are the
\* file system calls that may fail.
WriteF(e, Faults) ==
  /\ pc[e] = "idle"
  /\ \E fail \in {"none"} \cup Faults :
     \E order \in OrdersIf(fail \in {"none", "write"} /\ NeedsId(env[e]), dir) :
       LET h == write_head(env[e], dir, fail, order)
           t == write_tail([env[e] EXCEPT !.id = h.id], dir, clock, fail)
           r == IF h.returned THEN h.res ELSE t.res
       IN  /\ h.id.v <= MaxId
           /\ env' = [env EXCEPT ![e].id = h.id]
           /\ dirExists' = (dirExists \/ h.created)
           /\ dir' = IF h.returned THEN dir ELSE t.dir
           /\ ret' = By(e, r, NoText)
           /\ wret' = [wret EXCEPT ![e] = Outcome(r)]
  /\ UNCHANGED <<pc, clock>>

Write(e) == WriteF(e, {"create_dir_all", "read_dir", "write"})

\* write(&mut self), up to and including self.id = Some(id), by a process
\* that another process may overtake before the file is written.
WriteBegin(e) ==
  /\ pc[e] = "idle"
  /\ \E order \in OrdersIf(NeedsId(env[e]), dir) :
       LET h == write_head(env[e], dir, "none", order)
       IN  /\ h.id.v <= MaxId
           /\ env' = [env EXCEPT ![e].id = h.id]
           /\ dirExists' = (dirExists \/ h.created)
           /\ IF h.returned
                THEN /\ ret' = By(e, h.res, NoText)
                     /\ wret' = [wret EXCEPT ![e] = Outcome(h.res)]
                     /\ UNCHANGED pc
              ELSE /\ pc' = [pc EXCEPT ![e] = "allocated"]
                   /\ UNCHANGED <<ret, wret>>
  /\ UNCHANGED <<dir, clock>>

\* write(&mut self), from serde_json::to_string_pretty(self) to the return.
WriteFinish(e) ==
  /\ pc[e] = "allocated"
  /\ LET t == write_tail(env[e], dir, clock, "none")
     IN  /\ dir' = t.dir
         /\ ret' = By(e, t.res, NoText)
         /\ wret' = [wret EXCEPT ![e] = Outcome(t.res)]
  /\ pc' = [pc EXCEPT ![e] = "idle"]
  /\ UNCHANGED <<env, dirExists, clock>>

\* The loop of clear_cache over the entries in the order read_dir yields
\* them: the first k are removed; the removal of the next one, if there is
\* one, fails and `?` returns its error.
ClearCacheRun(order, k) ==
  /\ dir' = clear_cache(dir, order, k)
  /\ ret' = By(0, IF k = Len(order) THEN Ok("clear_cache", 0, NoName, <<>>)
                  ELSE Err("clear_cache", "io"), NoText)

\* clear_cache()
ClearCacheF(Faults) ==
  /\ \E fail \in {"none"} \cup Faults :
       IF fail = "read_dir" \/ ~dirExists
         THEN /\ ret' = By(0, Err("clear_cache", "io"), NoText)
              /\ UNCHANGED dir
       ELSE \E order \in Orders(DOMAIN dir) :
            \E k \in IF fail = "remove" THEN 0..(Len(order) - 1) ELSE { Len(order) } :
              ClearCacheRun(order, k)
  /\ UNCHANGED <<env, pc, wret, dirExists, clock>>

ClearCache == ClearCacheF({"read_dir", "remove"})

\* list_sessions()
ListSessionsF(Faults) ==
  /\ \E fail \in {"none"} \cup Faults :
     \E order \in OrdersIf(fail = "none" /\ dirExists, dir) :
       ret' = By(0, list_sessions(dirExists, dir, fail, order), NoText)
  /\ UNCHANGED <<env, pc, wret, dirExists, dir, clock>>

ListSessions == ListSessionsF({"read_dir"})

\* next_cached_session()
NextCachedSessionF(Faults) ==
  /\ \E fail \in {"none"} \cup Faults :
     \E order \in OrdersIf(fail = "none" /\ dirExists, dir) :
       ret' = By(0, IF fail = "read_dir" \/ ~dirExists THEN Err("next_cached_session", "io")
                    ELSE next_cached_session(dir, order), NoText)
  /\ UNCHANGED <<env, pc, wret, dirExists, dir, clock>>

NextCachedSession == NextCachedSessionF({"read_dir"})

\* The Environment a snapshot file holds: read_to_string, then from_str.
LoadFile(exists, d, op, name, fail) ==
  IF fail = "read_to_string" \/ ~Readable(exists, d, name)
    THEN [res |-> Err(op, "io"), env |-> NoEnv]
  ELSE LET r == from_str(d[name].contents)
       IN  IF ~r.ok THEN [res |-> Err(op, "json"), env |-> NoEnv]
           ELSE [res |-> Ok(op, 0, name, <<>>), env |-> r.env]

\* load(name): on success the process e holds the Environment of the snapshot.
LoadF(e, Faults) ==
  /\ pc[e] = "unused"
  /\ \E name \in Names, fail \in {"none"} \cup Faults :
       LET l == LoadFile(dirExists, dir, "load", name, fail)
       IN  /\ ret' = By(e, l.res, NoText)
           /\ IF l.res.ok
                THEN /\ env' = [env EXCEPT ![e] = l.env]
                     /\ pc' = [pc EXCEPT ![e] = "idle"]
              ELSE UNCHANGED <<env, pc>>
  /\ UNCHANGED <<wret, dirExists, dir, clock>>

Load(e) == LoadF(e, {"read_to_string"})

\* latest(): latest_chached_session, then as load.
LatestF(e, Faults) ==
  /\ pc[e] = "unused"
  /\ \E fail \in {"none"} \cup Faults :
     \E order \in OrdersIf(fail # "read_dir" /\ dirExists, dir) :
       IF fail = "read_dir" \/ ~dirExists
         THEN /\ ret' = By(e, Err("latest", "io"), NoText)
              /\ UNCHANGED <<env, pc>>
       ELSE LET s == latest_chached_session(dir, order)
            IN  IF ~s.ok
                  THEN /\ ret' = By(e, Err("latest", s.err), NoText)
                       /\ UNCHANGED <<env, pc>>
                ELSE LET l == LoadFile(dirExists, dir, "latest", s.path, fail)
                     IN  /\ ret' = By(e, l.res, NoText)
                         /\ IF l.res.ok
                              THEN /\ env' = [env EXCEPT ![e] = l.env]
                                   /\ pc' = [pc EXCEPT ![e] = "idle"]
                            ELSE UNCHANGED <<env, pc>>
  /\ UNCHANGED <<wret, dirExists, dir, clock>>

Latest(e) == LatestF(e, {"read_dir", "read_to_string"})

\* The process ends: its Environment is gone, the cache directory stays.
Exit(e) ==
  /\ pc[e] = "idle"
  /\ env' = [env EXCEPT ![e] = NoEnv]
  /\ pc' = [pc EXCEPT ![e] = "unused"]
  /\ wret' = [wret EXCEPT ![e] = "none"]
  /\ UNCHANGED <<dirExists, dir, clock, ret>>

\* Time passes between two file system calls.
Tick ==
  /\ clock < MaxTime
  /\ clock' = clock + 1
  /\ UNCHANGED <<env, pc, wret, dirExists, dir, ret>>

\* A snapshot in the documented format: each snippet is a JSON object.
HandWritten(i) ==
  [valid |-> TRUE, solc_version |-> DefaultVersion,
   session |-> <<[type |-> "object", source_unit |-> "uint256 x;", raw |-> "uint256 x;"]>>,
   id |-> Some(i)]

\* Another program puts an entry into the cache directory.
External ==
  /\ dirExists
  /\ \E name \in Names \ DOMAIN dir, isDir \in BOOLEAN :
       dir' = [n \in DOMAIN dir \cup {name} |->
                 IF n # name THEN dir[n]
                 ELSE IF name = Notes THEN Entry(isDir, clock, Garbage)
                 ELSE Entry(FALSE, clock, HandWritten(name.n))]
  /\ UNCHANGED <<env, pc, wret, dirExists, clock, ret>>

\* One process at a time runs each call to its return.
Next ==
  \/ \E e \in Envs : Default(e)
  \/ \E e \in Envs : Submit(e)
  \/ \E e \in Envs : Render(e)
  \/ \E e \in Envs : Write(e)
  \/ \E e \in Envs : Load(e)
  \/ \E e \in Envs : Latest(e)
  \/ \E e \in Envs : Exit(e)
  \/ CreateCacheDir
  \/ ClearCache
  \/ ListSessions
  \/ NextCachedSession
  \/ Tick
  \/ External

Spec == Init /\ [][Next]_vars

\* Two processes persist at the same time: the two halves of write interleave.
NextRace ==
  \/ \E e \in Procs : Default(e)
  \/ \E e \in Procs : Submit(e)
  \/ \E e \in Procs : WriteBegin(e)
  \/ \E e \in Procs : WriteFinish(e)
  \/ Tick

SpecRace == InitOf(Procs) /\ [][NextRace]_vars

(***************************************************************************)
(* Rendering alone: an Environment with any session of at most MaxRender   *)
(* snippets of the catalogue, any version and any id, is rendered.         *)
(***************************************************************************)
\* The sessions of n snippets of the catalogue.
RenderSessions(n) ==
  { [i \in 1..n |-> SolSnippet(f[i])] : f \in [1..n -> Texts] }

InitRender ==
  /\ \E n \in 0..MaxRender :
     \E s \in RenderSessions(n), v \in Versions, id \in { None, Some(0) } :
       env = [e \in Envs |-> ChiselEnv(v, s, id)]
  /\ pc = [e \in Envs |-> "idle"]
  /\ wret = [e \in Envs |-> "none"]
  /\ dirExists = FALSE
  /\ dir = EmptyDir
  /\ clock = 0
  /\ ret = By(0, NoRes, NoText)

NextRender == \E e \in Envs : Render(e)

SpecRender == InitRender /\ [][NextRender]_vars

(***************************************************************************)
(* Restoring alone: the cache directory holds one file, chisel-0.json,     *)
(* whose contents are any of the stored files; load and latest read it.    *)
(***************************************************************************)
\* The texts found in the records of a stored file.
StoredTexts == { "uint256 x;", "function f() {}", "import \"b.sol\";", BadText }

\* A record of a stored session: a JSON object with the two fields, or the
\* JSON string impl Serialize for SolSnippet writes.
StoredValues ==
  { [type |-> t, source_unit |-> x, raw |-> x] : t \in { "object", "string" }, x \in StoredTexts }

StoredSessions ==
  UNION { [1..n -> StoredValues] : n \in 0..MaxStored }

StoredFiles ==
  { Garbage } \cup
  { [valid |-> TRUE, solc_version |-> DefaultVersion, session |-> s, id |-> Some(0)] :
      s \in StoredSessions }

InitRestore ==
  /\ env = [e \in Envs |-> NoEnv]
  /\ pc = [e \in Envs |-> "unused"]
  /\ wret = [e \in Envs |-> "none"]
  /\ dirExists = TRUE
  /\ dir \in { [n \in { SessionName(0) } |-> Entry(FALSE, 0, f)] : f \in StoredFiles }
  /\ clock = 0
  /\ ret = By(0, NoRes, NoText)

NextRestore ==
  \/ \E e \in Envs : Load(e)
  \/ \E e \in Envs : Latest(e)
  \/ \E e \in Envs : Exit(e)

SpecRestore == InitRestore /\ [][NextRestore]_vars

(***************************************************************************)
(* Properties.                                                             *)
(***************************************************************************)
\* The region of the rendered contract the first part of a snippet sends it to.
Placement(unit) ==
  IF IsTopLevel(unit) THEN "top_level"
  ELSE IF IsFallback(unit) THEN "fallback"
  ELSE IF Len(unit.source_unit) = 0 THEN "none"
  ELSE IF unit.source_unit[1].kind = "PragmaDirective" THEN "pragma"
  ELSE IF unit.source_unit[1].kind = "ImportDirective" THEN "import"
  ELSE "none"

\* C1 (as claimed): a write on an Environment whose id is set and whose
\* snapshot file is there from the previous persist, when it returns Ok,
\* leaves in chisel-<id>.json the serialization of the Environment as it is
\* now.
C1_WriteOverwrites ==
  [][\A e \in Envs :
       (env[e].id.some /\ SessionName(env[e].id.v) \in DOMAIN dir /\ Write(e) /\ ret'.ok)
         => /\ ret'.path \in DOMAIN dir'
            /\ dir'[ret'.path].contents = to_string_pretty(env'[e])]_vars

\* C2 (as claimed): after a write that returns Ok(path), load(path) succeeds
\* and gives a session of the same length with the same raw text at each
\* position and the same placement of each snippet.
C2_RoundTrip ==
  [][\A e \in Envs :
       (Write(e) /\ ret'.ok)
         => LET l == LoadFile(dirExists', dir', "load", ret'.path, "none")
                a == env'[e].session
                b == l.env.session
            IN  /\ l.res.ok
                /\ Len(b) = Len(a)
                /\ \A i \in 1..Len(a) :
                     /\ b[i].raw = a[i].raw
                     /\ Placement(b[i]) = Placement(a[i])]_vars

\* C3: once the id of an Environment is Some(n) it stays Some(n) whatever is
\* called, and every later write either fails on the file system or returns
\* the path chisel-<n>.json; it never fails in the id allocator.
C3_IdSetOnce ==
  [][\A e \in Envs :
       (pc[e] = "idle" /\ pc'[e] = "idle" /\ env[e].id.some)
         => /\ env'[e].id = env[e].id
            /\ Write(e) => /\ ret'.ok => ret'.path = SessionName(env[e].id.v)
                           /\ ~ret'.ok => ret'.err = "io"]_vars

\* C3 witness: a write has returned the path of the snapshot the Environment
\* wrote before a snippet was appended.
C3_Witness ==
  \E e \in Envs :
    /\ ret.op = "write" /\ ret.who = e /\ ret.ok
    /\ pc[e] = "idle" /\ env[e].id.some
    /\ Len(env[e].session) > 0
    /\ ret.path = SessionName(env[e].id.v)
    /\ ret.path \in DOMAIN dir
    /\ dir[ret.path].contents = to_string_pretty([env[e] EXCEPT !.session = <<>>])

\* C4 (as claimed): a write on an Environment without an id that returns an
\* error leaves the Environment without an id.
C4_FailedWriteKeepsNone ==
  [][\A e \in Envs :
       (pc[e] = "idle" /\ ~env[e].id.some /\ Write(e) /\ ~ret'.ok)
         => ~env'[e].id.some]_vars

Snapshots(d) == { n \in DOMAIN d : n.prefix /\ n.num /\ n.suffix }

\* C5 (as claimed): with the file system answering every call,
\* next_cached_session returns 0 on an empty cache directory, and returns 1
\* when chisel-0.json is the only snapshot, whatever other entries the
\* directory holds and whatever their modification times.
C5_IdMonotonic ==
  [][(dirExists /\ NextCachedSessionF({}))
       => /\ DOMAIN dir = {} => (ret'.ok /\ ret'.n = 0)
          /\ Snapshots(dir) = { SessionName(0) } => (ret'.ok /\ ret'.n = 1)]_vars

\* C6: when a process finishes a first persist the write returns Ok and the
\* file of its id holds its snapshot, whatever another process had written
\* to that file since the id was allocated.
C6_LaterWriteReplaces ==
  [][\A e \in Procs :
       WriteFinish(e)
         => /\ ret'.ok /\ wret'[e] = "ok"
            /\ dir'[SessionName(env[e].id.v)].contents = to_string_pretty(env[e])]_vars

\* C6 witness: two processes have the same id, the write of each has returned
\* Ok, and the one file holds the snapshot of the second and not of the first.
C6_Witness ==
  \E e1 \in Procs, e2 \in Procs :
    /\ e1 # e2
    /\ pc[e1] = "idle" /\ pc[e2] = "idle"
    /\ env[e1].id.some /\ env[e2].id = env[e1].id
    /\ wret[e1] = "ok" /\ wret[e2] = "ok"
    /\ ret.op = "write" /\ ret.who = e2 /\ ret.ok
    /\ dir[ret.path].contents = to_string_pretty(env[e2])
    /\ dir[ret.path].contents # to_string_pretty(env[e1])

\* C7: when clear_cache returns Ok, list_sessions on the directory it leaves
\* returns the empty list, in whatever order the directory is read.
C7_PurgeTotal ==
  [][(ClearCache /\ ret'.ok)
       => \A order \in Orders(DOMAIN dir') :
            LET l == list_sessions(dirExists', dir', "none", order)
            IN  l.ok /\ l.list = <<>>]_vars

\* C7 witness: clear_cache has returned Ok on a directory that held the
\* snapshot of the running Environment.
C7_Witness ==
  /\ ret.op = "clear_cache" /\ ret.ok
  /\ DOMAIN dir = {}
  /\ \E e \in Envs : pc[e] = "idle" /\ env[e].id.some /\ wret[e] = "ok"

\* C8 (as claimed): with the file system answering every call, latest on a
\* cache directory without entries (empty, or not created yet) fails with
\* "No entries found!".
C8_LatestNotFound ==
  [][\A e \in Envs :
       (LatestF(e, {}) /\ DOMAIN dir = {})
         => (~ret'.ok /\ ret'.err = "No entries found!")]_vars

\* C9: the text contract_source returns for an Environment changes only when
\* its session changes: no call that leaves the session (and the version) as
\* it is changes the text, and the text a call returns is that text.
C9_RenderDeterministic ==
  [][\A e \in Envs :
       /\ (pc[e] = "idle" /\ pc'[e] = "idle"
             /\ env'[e].session = env[e].session
             /\ env'[e].solc_version = env[e].solc_version)
            => contract_source(env'[e]) = contract_source(env[e])
       /\ Render(e) => ret'.text = contract_source(env'[e])]_vars

\* C9 witness: contract_source has returned the text of a non-empty session
\* of an Environment that has been persisted.
C9_Witness ==
  \E e \in Envs :
    /\ ret.op = "contract_source" /\ ret.who = e
    /\ pc[e] = "idle" /\ env[e].id.some /\ wret[e] = "ok"
    /\ Len(env[e].session) > 0
    /\ ret.text = contract_source(env[e])

FirstIsPragma(unit) ==
  Len(unit.source_unit) > 0 /\ unit.source_unit[1].kind = "PragmaDirective"

ContainsPragma(unit) ==
  \E i \in 1..Len(unit.source_unit) : unit.source_unit[i].kind = "PragmaDirective"

Least(S) == CHOOSE i \in S : \A j \in S : i <= j

Without(session, i) ==
  SubSeq(session, 1, i - 1) \o SubSeq(session, i + 1, Len(session))

RegionNames == { "pragma", "imports", "top_level_units", "fallback_snippets" }

\* The regions of the rendered contract the i-th snippet contributes to: the
\* regions that are not the same when the contract is rendered without it.
Contribution(self, i) ==
  LET with == contract_source(self)
      without == contract_source([self EXCEPT !.session = Without(self.session, i)])
  IN  { r \in RegionNames : with[r] # without[r] }

Rendered(e) == ret.op = "contract_source" /\ ret.who = e

\* C11 (as claimed): no snippet of a rendered session contributes to more
\* than one of the four regions (pragma line, import block, contract body,
\* fallback body).
C11_OneRegion ==
  \A e \in Envs :
    Rendered(e)
      => \A i \in 1..Len(env[e].session) :
           Cardinality(Contribution(env[e], i)) <= 1

\* The k-th element of a set of indices, counted from the least.
Nth(I, k) == CHOOSE i \in I : Cardinality({ j \in I : j <= i }) = k

IsPrefix(a, b) == Len(a) <= Len(b) /\ SubSeq(b, 1, Len(a)) = a

\* The raw texts of the snippets of session at the indices I, in session order.
InOrder(session, I, region) ==
  /\ Len(region) = Cardinality(I)
  /\ \A k \in 1..Len(region) : region[k] = session[Nth(I, k)].raw

\* C12: the contract body holds the texts of the top-level snippets in their
\* session order and the fallback body those of the variable snippets in
\* theirs, whatever lies between them; and what any shorter session (the
\* session before snippets were appended) renders is a prefix of both.
C12_OrderPreserved ==
  \A e \in Envs :
    Rendered(e)
      => LET s == env[e].session
         IN  /\ InOrder(s, { i \in 1..Len(s) : Placement(s[i]) = "top_level" },
                        ret.text.top_level_units)
             /\ InOrder(s, { i \in 1..Len(s) : Placement(s[i]) = "fallback" },
                        ret.text.fallback_snippets)
             /\ \A n \in 0..Len(s) :
                  LET before == contract_source([env[e] EXCEPT !.session = SubSeq(s, 1, n)])
                  IN  /\ IsPrefix(before.top_level_units, ret.text.top_level_units)
                      /\ IsPrefix(before.fallback_snippets, ret.text.fallback_snippets)

\* C12 witness: two different top-level snippets with a variable snippet
\* between them are rendered, the first ahead of the third.
C12_Witness ==
  \E e \in Envs :
    /\ Rendered(e)
    /\ Len(env[e].session) = 3
    /\ Placement(env[e].session[1]) = "top_level"
    /\ Placement(env[e].session[2]) = "fallback"
    /\ Placement(env[e].session[3]) = "top_level"
    /\ env[e].session[1].raw # env[e].session[3].raw
    /\ ret.text.top_level_units = <<env[e].session[1].raw, env[e].session[3].raw>>
    /\ ret.text.fallback_snippets = <<env[e].session[2].raw>>

\* The documented region of each kind of first declaration.
DocumentedRegion(kind) ==
  CASE kind = "PragmaDirective" -> "pragma"
    [] kind = "ImportDirective" -> "imports"
    [] kind \in { "EnumDefinition", "StructDefinition", "EventDefinition",
                  "ErrorDefinition", "FunctionDefinition", "TypeDefinition",
                  "Using" } -> "top_level_units"
    [] kind = "VariableDefinition" -> "fallback_snippets"
    [] kind \in { "ContractDefinition", "StraySemicolon" } -> "none"

\* The rendering with the one snippet in the region r and nothing elsewhere.
OnlyIn(r, snippet, version) ==
  [pragma |-> IF r = "pragma" THEN [fmt |-> "{}", arg |-> snippet.raw]
              ELSE [fmt |-> "pragma solidity {};", arg |-> version],
   imports |-> IF r = "imports" THEN <<snippet.source_unit[1].path>> ELSE <<>>,
   top_level_units |-> IF r = "top_level_units" THEN <<snippet.raw>> ELSE <<>>,
   fallback_snippets |-> IF r = "fallback_snippets" THEN <<snippet.raw>> ELSE <<>>]

FirstIsExcluded(unit) ==
  /\ Len(unit.source_unit) > 0
  /\ unit.source_unit[1].kind \in { "ContractDefinition", "StraySemicolon" }

ImportPositions(session) ==
  UNION { { <<i, j>> : j \in { k \in 1..Len(session[i].source_unit) :
                                 session[i].source_unit[k].kind = "ImportDirective" } } :
          i \in 1..Len(session) }

\* Snippet by snippet, then part by part.
Before(p, q) == p[1] < q[1] \/ (p[1] = q[1] /\ p[2] <= q[2])

\* C15: the import block holds one line for each import directive of the
\* session, the path of the directive, ordered by snippet and then by the
\* position in the snippet's tree, a repeated path once for each occurrence.
C15_ImportBlock ==
  \A e \in Envs :
    Rendered(e)
      => LET s == env[e].session
             P == ImportPositions(s)
         IN  /\ Len(ret.text.imports) = Cardinality(P)
             /\ \A p \in P :
                  ret.text.imports[Cardinality({ q \in P : Before(q, p) })]
                    = s[p[1]].source_unit[p[2]].path

\* C15 witness: the import block of a rendered session lists a path of one
\* snippet and then the same path of another snippet twice.
C15_Witness ==
  \E e \in Envs :
    /\ Rendered(e)
    /\ Len(env[e].session) = 2
    /\ ret.text.imports = <<"b.sol", "a.sol", "a.sol">>
    /\ Cardinality(ImportPositions(env[e].session)) = 3

(***************************************************************************)
(* Restoring, purging and the allocation of ids.                           *)
(***************************************************************************)
\* A stored record that reads back as a snippet: a JSON object whose text,
\* as it stands between the quotes, parses.
Reparses(value) ==
  value.type = "object" /\ Parse(JsonEscape(value.source_unit)).ok

\* C16: load and latest return an Environment only from a file that is valid
\* and all of whose records read back, and then the Environment holds as many
\* snippets as the file has records; on any other file they return an error
\* and the process has no Environment.
C16_RestoreAllOrNothing ==
  [][\A e \in Envs :
       (Load(e) \/ Latest(e))
         => IF ret'.ok
              THEN LET c == dir[ret'.path].contents
                   IN  /\ c.valid
                       /\ \A i \in 1..Len(c.session) : Reparses(c.session[i])
                       /\ pc'[e] = "idle"
                       /\ Len(env'[e].session) = Len(c.session)
                       /\ \A i \in 1..Len(c.session) :
                            env'[e].session[i].raw = JsonEscape(c.session[i].raw)
            ELSE pc'[e] = "unused" /\ env'[e] = NoEnv]_vars

\* C16 witness: load or latest has failed in the deserializer on a valid file
\* of two records of which the first reads back and the second does not, and
\* the process has no Environment.
C16_Witness ==
  \E e \in Envs :
    /\ ret.op \in { "load", "latest" } /\ ret.who = e
    /\ ~ret.ok /\ ret.err = "json"
    /\ pc[e] = "unused" /\ env[e] = NoEnv
    /\ DOMAIN dir = { SessionName(0) }
    /\ LET c == dir[SessionName(0)].contents
       IN  /\ c.valid /\ Len(c.session) = 2
           /\ Reparses(c.session[1])
           /\ c.session[2].type = "object" /\ ~Reparses(c.session[2])

\* C17: when clear_cache has removed the first k entries read_dir yields and
\* the removal of the next one fails, it returns the error, the entries
\* before the failing one are gone, and the failing one and every entry after
\* it are in the directory as they were.
C17_PurgeAbort ==
  [][(ret'.op = "clear_cache" /\ dirExists /\ ClearCache)
       => \A order \in Orders(DOMAIN dir) :
          \A k \in 0..(Len(order) - 1) :
            ClearCacheRun(order, k)
              => /\ ~ret'.ok /\ ret'.err = "io"
                 /\ \A i \in 1..Len(order) :
                      IF i <= k THEN order[i] \notin DOMAIN dir'
                      ELSE order[i] \in DOMAIN dir' /\ dir'[order[i]] = dir[order[i]]]_vars

\* C17 witness: clear_cache has returned an error, the snapshot of the
\* running Environment is gone and another entry is still in the directory.
C17_Witness ==
  /\ ret.op = "clear_cache" /\ ~ret.ok
  /\ dirExists /\ DOMAIN dir # {}
  /\ \E e \in Envs :
       /\ pc[e] = "idle" /\ env[e].id.some /\ wret[e] = "ok"
       /\ SessionName(env[e].id.v) \notin DOMAIN dir

\* The cache directory holds nothing but snapshots that write has written.
ChiselWritten(d) ==
  \A n \in DOMAIN d :
    /\ n \in Snapshots(d) /\ ~d[n].is_dir
    /\ d[n].contents.valid /\ d[n].contents.id = Some(n.n)
    /\ \A i \in 1..Len(d[n].contents.session) : d[n].contents.session[i].type = "string"

\* C18 (as claimed): with nothing but write's own snapshots in the cache
\* directory and the file system answering every call, the first write of an
\* Environment returns the path of a file that was not in the directory.
C18_FirstPersistFresh ==
  [][\A e \in Envs :
       (pc[e] = "idle" /\ ~env[e].id.some /\ ChiselWritten(dir)
          /\ WriteF(e, {}) /\ ret'.ok)
         => ret'.path \notin DOMAIN dir]_vars

\* C19 (as claimed): on a cache directory that holds snapshots and nothing
\* else, the id next_cached_session returns is 1 plus the id in the name of
\* the file latest_chached_session selects from the same directory listing.
C19_NextAgreesWithLatest ==
  [][(dirExists /\ DOMAIN dir # {} /\ Snapshots(dir) = DOMAIN dir
        /\ NextCachedSessionF({}))
       => \E order \in Orders(DOMAIN dir) :
            /\ ret' = By(0, next_cached_session(dir, order), NoText)
            /\ ret'.ok
            /\ ret'.n = latest_chached_session(dir, order).path.n + 1]_vars

====
